---- MODULE Spec2Model ----
(***************************************************************************)
(* A model of the PagerView container (src/src/PagerView.tsx) and of the   *)
(* pager store it creates with createPagerStore (./usePager).              *)
(*                                                                         *)
(* The container part is translated from PagerView.tsx.  The store's own   *)
(* source (./usePager) is not available: createPagerStore, getState,       *)
(* setState and subscribe follow the written specification of the store    *)
(* (sections 3, 4.1 and 7).                                                *)
(***************************************************************************)
EXTENDS Integers, Sequences, FiniteSets, TLC

\* ------------------------------------------------------------------------
\* Bounds of the model
\* ------------------------------------------------------------------------

\* The largest number of children (pages) the application supplies.
MaxChildren == 3

\* The number of distinct subscriber callbacks.
MaxSubs == 2

\* The longest logged sequence of direct setState calls (SpecMerge).
MaxCalls == 2

ChildCounts == 0..MaxChildren

\* Positions an event can carry and indexes a command can be given: the
\* valid ones for every child count, one below and one above.
Positions == -1..MaxChildren

Subs == 1..MaxSubs

\* An optional value is the empty set (undefined) or a singleton.
Undefined == {}

Some(v) == {v}

Val(opt) == CHOOSE v \in opt : TRUE

\* props.initialPage: left out, or a page index.
InitialPageProps == {Undefined} \cup {Some(p) : p \in 0..(MaxChildren - 1)}

\* A user callback prop (onPageScroll, onPageScrollStateChanged,
\* onPageSelected): not supplied, supplied and returning, supplied and throwing.
CallbackKinds == {"absent", "returns", "throws"}

ScrollStates == {"idle", "settling", "dragging"}

Platforms == {"android", "ios"}

KeyboardDismissModes == {"none", "on-drag"}

NullHandle == "null"

ViewHandle == "view"

\* ------------------------------------------------------------------------
\* The pager store (./usePager)
\* ------------------------------------------------------------------------

\* a ?? b
NullishCoalesce(opt, default) == IF opt = Undefined THEN default ELSE Val(opt)

\* createPagerStore(initialPage): the seed state.
createPagerStore(initialPage) ==
    [state |-> [page |-> initialPage,
                hasNextPage |-> TRUE,
                hasPreviousPage |-> initialPage > 0],
     listeners |-> <<>>]

\* Partial<PageSyncState>: every field is optional.
Partial(page, hasNextPage, hasPreviousPage) ==
    [page |-> page, hasNextPage |-> hasNextPage, hasPreviousPage |-> hasPreviousPage]

\* The spread written the other way round, {...partial, ...state}: the old
\* value of every field wins.
MergeStateWins(s, partial) == s

\* {...state, ...partial}
Merge(s, partial) ==
    [page |-> NullishCoalesce(partial.page, s.page),
     hasNextPage |-> NullishCoalesce(partial.hasNextPage, s.hasNextPage),
     hasPreviousPage |-> NullishCoalesce(partial.hasPreviousPage, s.hasPreviousPage)]

Range(seq) == {seq[i] : i \in 1..Len(seq)}

\* subscribe(callback): registered last.
Subscribed(ls, id) == IF id \in Range(ls) THEN ls ELSE Append(ls, id)

\* The unsubscribe handle subscribe returned for id.
Unsubscribed(ls, id) == SelectSeq(ls, LAMBDA x : x # id)

\* What a subscriber callback does when it is notified.
Acts ==
    {[kind |-> "none", target |-> 0], [kind |-> "throw", target |-> 0]}
    \cup {[kind |-> k, target |-> t] : k \in {"unsubscribe", "subscribe"}, t \in Subs}

\* The subscriber set after a callback has done `act`.
AfterAct(ls, act) ==
    CASE act.kind = "unsubscribe" -> Unsubscribed(ls, act.target)
      [] act.kind = "subscribe" -> Subscribed(ls, act.target)
      [] OTHER -> ls

\* Callbacks that only read the snapshot.
QuietActs == [id \in Subs |-> [kind |-> "none", target |-> 0]]

\* A round that walks the live list by index instead of a copy of it: a
\* callback that unsubscribes shifts the ones behind it.
RECURSIVE NotifyLive(_, _, _, _, _)
NotifyLive(snap, i, ls, acts, s) ==
    IF i > Len(ls)
    THEN [listeners |-> ls, delivered |-> <<>>]
    ELSE LET id == ls[i]
             kind == IF id \in DOMAIN acts THEN acts[id].kind ELSE "none"
             after == IF id \in DOMAIN acts THEN AfterAct(ls, acts[id]) ELSE ls
             rest == IF i >= Len(snap) + Cardinality(Subs)
                     THEN [listeners |-> after, delivered |-> <<>>]
                     ELSE NotifyLive(snap, i + 1, after, acts, s)
         IN [listeners |-> rest.listeners,
             delivered |-> <<[id |-> id, snapshot |-> s, act |-> kind]>>
                           \o rest.delivered]

\* A round that lets a callback's exception end it.
RECURSIVE NotifyUntilThrow(_, _, _, _, _)
NotifyUntilThrow(snap, i, ls, acts, s) ==
    IF i > Len(snap)
    THEN [listeners |-> ls, delivered |-> <<>>]
    ELSE LET id == snap[i]
             rest == IF acts[id].kind = "throw"
                     THEN [listeners |-> ls, delivered |-> <<>>]
                     ELSE NotifyUntilThrow(snap, i + 1, AfterAct(ls, acts[id]), acts, s)
         IN [listeners |-> rest.listeners,
             delivered |-> <<[id |-> id, snapshot |-> s, act |-> acts[id].kind]>>
                           \o rest.delivered]

\* One notification round over `snap`, the copy of the subscriber list taken
\* when the round started, from index i on; ls is the live list.  A callback
\* that throws is isolated: the round goes on with the next one.
RECURSIVE NotifyFrom(_, _, _, _, _)
NotifyFrom(snap, i, ls, acts, s) ==
    IF i > Len(snap)
    THEN [listeners |-> ls, delivered |-> <<>>]
    ELSE LET id == snap[i]
             rest == NotifyFrom(snap, i + 1, AfterAct(ls, acts[id]), acts, s)
         IN [listeners |-> rest.listeners,
             delivered |-> <<[id |-> id, snapshot |-> s, act |-> acts[id].kind]>>
                           \o rest.delivered]

\* A setState that skips the round when the update changes no field.
SetStateCoalescing(st, partial, acts) ==
    LET new == Merge(st.state, partial)
        round == IF new = st.state
                 THEN [listeners |-> st.listeners, delivered |-> <<>>]
                 ELSE NotifyFrom(st.listeners, 1, st.listeners, acts, new)
    IN [state |-> new, listeners |-> round.listeners, delivered |-> round.delivered]

\* A setState whose round ends by notifying the callbacks that were
\* subscribed while it ran.
SetStateNotifyingNewcomers(st, partial, acts) ==
    LET new == Merge(st.state, partial)
        round == NotifyFrom(st.listeners, 1, st.listeners, acts, new)
        late == SelectSeq(round.listeners, LAMBDA x : x \notin Range(st.listeners))
    IN [state |-> new,
        listeners |-> round.listeners,
        delivered |-> round.delivered \o
                      [i \in 1..Len(late) |->
                          [id |-> late[i], snapshot |-> new, act |-> "none"]]]

\* store.setState(partial): merge, then notify every current subscriber.
SetState(st, partial, acts) ==
    LET new == Merge(st.state, partial)
        round == NotifyFrom(st.listeners, 1, st.listeners, acts, new)
    IN [state |-> new, listeners |-> round.listeners, delivered |-> round.delivered]

\* ------------------------------------------------------------------------
\* The container (src/src/PagerView.tsx)
\* ------------------------------------------------------------------------

VARIABLES
    props,          \* this.props: the children (their number)
    phase,          \* lifecycle: "Constructed", "Mounted", "Unmounted"
    isScrolling,    \* this.isScrolling
    pagerView,      \* this.pagerView: the native view handle or null
    store,          \* this.store: [state, listeners]
    last,           \* the last call made: [op, position, flag, update]
    issued,         \* native commands the last call dispatched
    delivered,      \* store notifications the last call delivered, in order
    raised,         \* whether the last call threw
    dismissed,      \* whether the last call dismissed the keyboard
    selected,       \* whether a selection event has updated the store
    countAtUpdate,  \* the child count at the store's last update
    calls,          \* a client's log: [initial, updates] (SpecMerge)
    steps,          \* what the last selection event did, in order
    second          \* a second container instance: [children, pagerView,
                    \* isScrolling, store, issued, delivered]

vars == <<props, phase, isScrolling, pagerView, store, last, issued, delivered,
          raised, dismissed, selected, countAtUpdate, calls, steps, second>>

\* React.Children.count(this.props.children)
ChildrenCount == props.children

\* An update that mentions no field.
NoUpdate == Partial(Undefined, Undefined, Undefined)

Call(op, position, flag) ==
    [op |-> op, position |-> position, flag |-> flag, update |-> NoUpdate]

\* A call that hands `partial` to store.setState.
CallWith(op, position, flag, partial) ==
    [op |-> op, position |-> position, flag |-> flag, update |-> partial]

\* A client that has logged nothing.
NoLog == [initial |-> Undefined, updates |-> <<>>]

\* new PagerView(props) for the second instance: two children, no initialPage.
SecondContainer ==
    [children |-> 2,
     pagerView |-> NullHandle,
     isScrolling |-> FALSE,
     store |-> createPagerStore(NullishCoalesce(Undefined, 0)),
     issued |-> <<>>,
     delivered |-> <<>>]

\* A constructor that does not pass initialPage on to the store.
InitIgnoringInitialPage ==
    /\ props \in [children : ChildCounts]
    /\ phase = "Constructed"
    /\ isScrolling = FALSE
    /\ pagerView = NullHandle
    /\ store = createPagerStore(0)
    /\ \E initialPage \in InitialPageProps :
          last = Call("constructor", NullishCoalesce(initialPage, 0),
                      initialPage # Undefined)
    /\ issued = <<>>
    /\ delivered = <<>>
    /\ raised = FALSE
    /\ dismissed = FALSE
    /\ selected = FALSE
    /\ countAtUpdate = props.children
    /\ calls = NoLog
    /\ steps = <<>>
    /\ second = SecondContainer

\* new PagerView(props)
Init ==
    /\ props \in [children : ChildCounts]
    /\ phase = "Constructed"
    /\ isScrolling = FALSE
    /\ pagerView = NullHandle
    /\ \E initialPage \in InitialPageProps :
          /\ store = createPagerStore(NullishCoalesce(initialPage, 0))
          /\ last = Call("constructor", NullishCoalesce(initialPage, 0),
                         initialPage # Undefined)
    /\ issued = <<>>
    /\ delivered = <<>>
    /\ raised = FALSE
    /\ dismissed = FALSE
    /\ selected = FALSE
    /\ countAtUpdate = props.children
    /\ calls = NoLog
    /\ steps = <<>>
    /\ second = SecondContainer

\* What a call that touches neither the store nor the native view leaves.
NoEffects ==
    /\ issued' = <<>>
    /\ delivered' = <<>>
    /\ dismissed' = FALSE
    /\ steps' = <<>>
    /\ UNCHANGED second

\* ref={(ref) => { this.pagerView = ref; }} called with the mounted view.
Mount ==
    /\ phase = "Constructed"
    /\ phase' = "Mounted"
    /\ pagerView' = ViewHandle
    /\ last' = Call("mount", 0, FALSE)
    /\ raised' = FALSE
    /\ NoEffects
    /\ UNCHANGED <<props, isScrolling, store, selected, countAtUpdate, calls>>

\* An unmount that also tears the store down.
UnmountClearing ==
    /\ phase = "Mounted"
    /\ phase' = "Unmounted"
    /\ pagerView' = NullHandle
    /\ store' = [store EXCEPT !.listeners = <<>>]
    /\ last' = Call("unmount", 0, FALSE)
    /\ raised' = FALSE
    /\ NoEffects
    /\ UNCHANGED <<props, isScrolling, selected, countAtUpdate, calls>>

\* The ref callback called with null when the view goes away.  The class
\* has no componentWillUnmount: nothing else is released.
Unmount ==
    /\ phase = "Mounted"
    /\ phase' = "Unmounted"
    /\ pagerView' = NullHandle
    /\ last' = Call("unmount", 0, FALSE)
    /\ raised' = FALSE
    /\ NoEffects
    /\ UNCHANGED <<props, isScrolling, store, selected, countAtUpdate, calls>>

\* A render that brings hasNextPage up to date with the new child count.
SetChildrenRecomputing(n) ==
    /\ phase = "Mounted"
    /\ n # props.children
    /\ props' = [props EXCEPT !.children = n]
    /\ store' = [store EXCEPT !.state.hasNextPage = (store.state.page < n - 1)]
    /\ last' = Call("render", n, FALSE)
    /\ raised' = FALSE
    /\ NoEffects
    /\ UNCHANGED <<phase, isScrolling, pagerView, selected, countAtUpdate, calls>>

\* The application renders the mounted container with another number of
\* children.  The handle is the same before and after the render.
SetChildren(n) ==
    /\ phase = "Mounted"
    /\ n # props.children
    /\ props' = [props EXCEPT !.children = n]
    /\ last' = Call("render", n, FALSE)
    /\ raised' = FALSE
    /\ NoEffects
    /\ UNCHANGED <<phase, isScrolling, pagerView, store, selected,
                   countAtUpdate, calls>>

\* A scroll handler that also writes the position it sees into the store.
OnPageScrollWritesStore(position, cb, os, mode) ==
    /\ phase = "Mounted"
    /\ last' = [op |-> "onPageScroll", position |-> position, flag |-> FALSE,
                update |-> [page |-> {}, hasNextPage |-> {}, hasPreviousPage |-> {}]]
    /\ raised' = (cb = "throws")
    /\ dismissed' = (cb # "throws" /\ os = "android" /\ mode = "on-drag")
    /\ issued' = <<>>
    /\ delivered' = <<>>
    /\ steps' = <<>>
    /\ store' = [store EXCEPT !.state.page = position]
    /\ UNCHANGED <<props, phase, isScrolling, pagerView, selected, countAtUpdate, calls,
                   second>>

\* _onPageScroll(e).  The native view emits events only while it is mounted.
OnPageScroll(position, cb, os, mode) ==
    /\ phase = "Mounted"
    /\ last' = Call("onPageScroll", position, FALSE)
    /\ raised' = (cb = "throws")
    /\ dismissed' = (cb # "throws" /\ os = "android" /\ mode = "on-drag")
    /\ issued' = <<>>
    /\ delivered' = <<>>
    /\ steps' = <<>>
    /\ UNCHANGED <<props, phase, isScrolling, pagerView, store, selected,
                   countAtUpdate, calls, second>>

\* A handler that takes every state but "idle" for a drag.
OnPageScrollStateChangedAnyMotion(pageScrollState, cb) ==
    /\ phase = "Mounted"
    /\ last' = Call("onPageScrollStateChanged", 0, pageScrollState = "dragging")
    /\ raised' = (cb = "throws")
    /\ isScrolling' = IF cb = "throws" THEN isScrolling
                      ELSE (pageScrollState # "idle")
    /\ NoEffects
    /\ UNCHANGED <<props, phase, pagerView, store, selected,
                   countAtUpdate, calls>>

\* _onPageScrollStateChanged(e)
OnPageScrollStateChanged(pageScrollState, cb) ==
    /\ phase = "Mounted"
    /\ last' = Call("onPageScrollStateChanged", 0, pageScrollState = "dragging")
    /\ raised' = (cb = "throws")
    /\ isScrolling' = IF cb = "throws" THEN isScrolling
                      ELSE (pageScrollState = "dragging")
    /\ NoEffects
    /\ UNCHANGED <<props, phase, pagerView, store, selected,
                   countAtUpdate, calls>>

\* A slip in the comparison: the last page still has a next page.
SelectionUpdateOffByOne(position, count) ==
    [page |-> Some(position), hasNextPage |-> Some(position < count),
     hasPreviousPage |-> Some(position > 0)]

\* A one-based page index written instead of the event's position.
SelectionUpdateOneBased(position, count) ==
    [page |-> Some(position + 1), hasNextPage |-> Some(position < count - 1),
     hasPreviousPage |-> Some(position > 0)]

\* An update of the two flags that leaves the page out.
SelectionUpdateWithoutPage(position, count) ==
    Partial(Undefined, Some(position < count - 1), Some(position > 0))

\* The update _onPageSelected hands to store.setState.
SelectionUpdate(position, count) ==
    Partial(Some(position), Some(position < count - 1), Some(position > 0))

\* A handler that updates the store first and forwards the event after.
SelectionBodyStoreFirst(supplied) ==
    IF supplied THEN <<"setState", "onPageSelected">> ELSE <<"setState">>

\* The statements of _onPageSelected, in order: the user's callback when
\* one is supplied, then the store update.
SelectionBody(supplied) ==
    IF supplied THEN <<"onPageSelected", "setState">> ELSE <<"setState">>

\* A handler that catches what the user's callback throws and goes on.
ExecutedPastThrow(body, cb) == body

\* The statements of `body` that run: a user callback that throws ends the
\* handler where it is called.
Executed(body, cb) ==
    IF cb = "throws"
    THEN LET i == CHOOSE k \in 1..Len(body) :
                     /\ body[k] = "onPageSelected"
                     /\ \A j \in 1..(k - 1) : body[j] # "onPageSelected"
         IN SubSeq(body, 1, i)
    ELSE body

\* _onPageSelected(e)
OnPageSelected(position, cb) ==
    LET ran == Executed(SelectionBody(cb # "absent"), cb)
        stores == "setState" \in Range(ran)
    IN
    /\ phase = "Mounted"
    /\ last' = IF stores
               THEN CallWith("onPageSelected", position, cb # "absent",
                             SelectionUpdate(position, ChildrenCount))
               ELSE Call("onPageSelected", position, cb # "absent")
    /\ raised' = (cb = "throws")
    /\ steps' = [i \in 1..Len(ran) |-> [step |-> ran[i], position |-> position]]
    /\ issued' = <<>>
    /\ dismissed' = FALSE
    /\ IF stores
       THEN LET r == SetState(store, SelectionUpdate(position, ChildrenCount), QuietActs)
            IN /\ store' = [state |-> r.state, listeners |-> r.listeners]
               /\ delivered' = r.delivered
               /\ selected' = TRUE
               /\ countAtUpdate' = ChildrenCount
       ELSE /\ delivered' = <<>>
            /\ UNCHANGED <<store, selected, countAtUpdate>>
    /\ UNCHANGED <<props, phase, isScrolling, pagerView, calls, second>>

\* A command of PagerViewCommands with its argument.
Command(name, index, enabled) == [name |-> name, index |-> index, enabled |-> enabled]

\* The guard on the handle left out.
DispatchUnguarded(command) == <<command>>

\* if (this.pagerView) { PagerViewCommands.<command>(this.pagerView, ...) }
Dispatch(command) == IF pagerView # NullHandle THEN <<command>> ELSE <<>>

ImperativeFrame ==
    /\ raised' = FALSE
    /\ delivered' = <<>>
    /\ dismissed' = FALSE
    /\ steps' = <<>>
    /\ UNCHANGED second
    /\ UNCHANGED <<props, phase, isScrolling, pagerView, store, selected,
                   countAtUpdate, calls>>

\* A setPage that writes the requested page into the store at once,
\* without waiting for the native view to report the selection.
setPageOptimistic(selectedPage) ==
    /\ last' = Call("setPage", selectedPage, FALSE)
    /\ issued' = Dispatch(Command("setPage", selectedPage, FALSE))
    /\ store' = [store EXCEPT !.state.page = selectedPage]
    /\ raised' = FALSE
    /\ delivered' = <<>>
    /\ dismissed' = FALSE
    /\ steps' = <<>>
    /\ UNCHANGED <<props, phase, isScrolling, pagerView, selected,
                   countAtUpdate, calls, second>>

\* A setPage that brings the index into the range of the children first.
setPageClamped(selectedPage) ==
    LET lastPage == IF ChildrenCount > 0 THEN ChildrenCount - 1 ELSE 0
        index == IF selectedPage < 0 THEN 0
                 ELSE IF selectedPage > lastPage THEN lastPage
                 ELSE selectedPage
    IN /\ last' = Call("setPage", selectedPage, FALSE)
       /\ issued' = Dispatch(Command("setPage", index, FALSE))
       /\ ImperativeFrame

\* setPage(selectedPage)
setPage(selectedPage) ==
    /\ last' = Call("setPage", selectedPage, FALSE)
    /\ issued' = Dispatch(Command("setPage", selectedPage, FALSE))
    /\ ImperativeFrame

\* setPageWithoutAnimation(selectedPage)
setPageWithoutAnimation(selectedPage) ==
    /\ last' = Call("setPageWithoutAnimation", selectedPage, FALSE)
    /\ issued' = Dispatch(Command("setPageWithoutAnimation", selectedPage, FALSE))
    /\ ImperativeFrame

\* setScrollEnabled(scrollEnabled)
setScrollEnabled(scrollEnabled) ==
    /\ last' = Call("setScrollEnabled", 0, scrollEnabled)
    /\ issued' = Dispatch(Command("setScrollEnabledImperatively", 0, scrollEnabled))
    /\ ImperativeFrame

\* _onMoveShouldSetResponderCapture()
OnMoveShouldSetResponderCapture == isScrolling

StoreFrame ==
    /\ raised' = FALSE
    /\ issued' = <<>>
    /\ dismissed' = FALSE
    /\ steps' = <<>>
    /\ UNCHANGED second
    /\ UNCHANGED <<props, phase, isScrolling, pagerView, selected,
                   countAtUpdate>>

\* A descendant calls store.subscribe(callback).
Subscribe(id) ==
    /\ id \notin Range(store.listeners)
    /\ store' = [store EXCEPT !.listeners = Subscribed(store.listeners, id)]
    /\ last' = Call("subscribe", id, FALSE)
    /\ delivered' = <<>>
    /\ StoreFrame
    /\ UNCHANGED calls

\* A descendant calls the unsubscribe handle it was given.
Unsubscribe(id) ==
    /\ id \in Range(store.listeners)
    /\ store' = [store EXCEPT !.listeners = Unsubscribed(store.listeners, id)]
    /\ last' = Call("unsubscribe", id, FALSE)
    /\ delivered' = <<>>
    /\ StoreFrame
    /\ UNCHANGED calls

\* Every call but a selection event.
OtherCalls ==
    \/ Mount
    \/ Unmount
    \/ \E n \in ChildCounts : SetChildren(n)
    \/ \E position \in Positions, cb \in CallbackKinds,
          os \in Platforms, mode \in KeyboardDismissModes :
            OnPageScroll(position, cb, os, mode)
    \/ \E s \in ScrollStates, cb \in CallbackKinds : OnPageScrollStateChanged(s, cb)
    \/ \E i \in Positions : setPage(i)
    \/ \E i \in Positions : setPageWithoutAnimation(i)
    \/ \E b \in BOOLEAN : setScrollEnabled(b)
    \/ \E id \in Subs : Subscribe(id)
    \/ \E id \in Subs : Unsubscribe(id)

\* The native view may report any position.
Next ==
    \/ OtherCalls
    \/ \E position \in Positions, cb \in CallbackKinds : OnPageSelected(position, cb)

Spec == Init /\ [][Next]_vars

\* A native view that behaves: it reports only positions of existing pages.
NextCorrectNative ==
    \/ OtherCalls
    \/ \E position \in 0..(ChildrenCount - 1), cb \in CallbackKinds :
          OnPageSelected(position, cb)

SpecCorrectNative == Init /\ [][NextCorrectNative]_vars

\* ------------------------------------------------------------------------
\* The store on its own, driven by a client that holds it
\* ------------------------------------------------------------------------

\* The updates the client passes: any subset of the fields.
PageUpdates == {Undefined, Some(0), Some(1)}

FlagUpdates == {Undefined, Some(FALSE), Some(TRUE)}

Partials ==
    {Partial(p, n, q) : p \in PageUpdates, n \in FlagUpdates, q \in FlagUpdates}

Mentions(partial) ==
    {k \in {"page", "hasNextPage", "hasPreviousPage"} : partial[k] # Undefined}

\* store.setState(partial), with subscribers that do `acts` when notified.
StoreSetState(partial, acts) ==
    LET r == SetState(store, partial, acts)
    IN /\ store' = [state |-> r.state, listeners |-> r.listeners]
       /\ delivered' = r.delivered
       /\ last' = CallWith("setState", Cardinality(Mentions(partial)),
                           r.state = store.state, partial)
       /\ StoreFrame
       /\ UNCHANGED calls

\* The client subscribes, unsubscribes and sets the page or nothing at all;
\* every callback that is notified does one of Acts.
NextStore ==
    \/ \E id \in Subs : Subscribe(id)
    \/ \E id \in Subs : Unsubscribe(id)
    \/ \E page \in {Undefined, Some(1)}, acts \in [Range(store.listeners) -> Acts] :
          StoreSetState(Partial(page, Undefined, Undefined), acts)

\* The store's behaviour does not read the children: one child count is enough.
InitStore == Init /\ props.children = MaxChildren

SpecStore == InitStore /\ [][NextStore]_vars

\* The client logs store.getState() before its first update.
LogInitial ==
    /\ calls = NoLog
    /\ calls' = [initial |-> Some(store.state), updates |-> <<>>]
    /\ last' = Call("getState", 0, FALSE)
    /\ delivered' = <<>>
    /\ UNCHANGED store
    /\ StoreFrame

\* The client logs a partial update and calls store.setState with it.
LoggedSetState(partial) ==
    /\ calls.initial # Undefined
    /\ Len(calls.updates) < MaxCalls
    /\ calls' = [calls EXCEPT !.updates = Append(@, partial)]
    /\ LET r == SetState(store, partial, QuietActs)
       IN /\ store' = [state |-> r.state, listeners |-> r.listeners]
          /\ delivered' = r.delivered
          /\ last' = CallWith("setState", Cardinality(Mentions(partial)),
                              r.state = store.state, partial)
    /\ StoreFrame

NextMerge ==
    \/ LogInitial
    \/ \E partial \in Partials : LoggedSetState(partial)

SpecMerge == InitStore /\ [][NextMerge]_vars

\* ------------------------------------------------------------------------
\* Two container instances mounted side by side
\* ------------------------------------------------------------------------

\* What a call on the second instance leaves of the first.
SecondFrame ==
    UNCHANGED <<props, phase, isScrolling, pagerView, store, issued, delivered,
                raised, dismissed, selected, countAtUpdate, calls, steps>>

\* The ref callback of the second instance, called with its mounted view.
SecondMount ==
    /\ second.pagerView = NullHandle
    /\ second' = [second EXCEPT !.pagerView = ViewHandle,
                                !.issued = <<>>, !.delivered = <<>>]
    /\ last' = Call("second.mount", 0, FALSE)
    /\ SecondFrame

\* A store held by the module and not by the instance: an event of the
\* second instance then writes the store the first instance publishes.
SecondOnPageSelectedSharedStore(position) ==
    /\ second.pagerView # NullHandle
    /\ LET update == SelectionUpdate(position, second.children)
           r == SetState(second.store, update, QuietActs)
           shared == SetState(store, update, QuietActs)
       IN /\ second' = [second EXCEPT
                          !.store = [state |-> r.state, listeners |-> r.listeners],
                          !.delivered = r.delivered,
                          !.issued = <<>>]
          /\ store' = [state |-> shared.state, listeners |-> shared.listeners]
          /\ last' = CallWith("second.onPageSelected", position, FALSE, update)
    /\ UNCHANGED <<props, phase, isScrolling, pagerView, issued, delivered,
                   raised, dismissed, selected, countAtUpdate, calls, steps>>

\* _onPageSelected(e) of the second instance, which has no user callback.
SecondOnPageSelected(position) ==
    /\ second.pagerView # NullHandle
    /\ LET update == SelectionUpdate(position, second.children)
           r == SetState(second.store, update, QuietActs)
       IN /\ second' = [second EXCEPT
                          !.store = [state |-> r.state, listeners |-> r.listeners],
                          !.delivered = r.delivered,
                          !.issued = <<>>]
          /\ last' = CallWith("second.onPageSelected", position, FALSE, update)
    /\ SecondFrame

\* _onPageScrollStateChanged(e) of the second instance.
SecondOnPageScrollStateChanged(pageScrollState) ==
    /\ second.pagerView # NullHandle
    /\ second' = [second EXCEPT !.isScrolling = (pageScrollState = "dragging"),
                                !.issued = <<>>, !.delivered = <<>>]
    /\ last' = Call("second.onPageScrollStateChanged", 0, pageScrollState = "dragging")
    /\ SecondFrame

\* setPage(selectedPage) of the second instance.
SecondSetPage(selectedPage) ==
    /\ second' = [second EXCEPT
                    !.issued = IF second.pagerView # NullHandle
                               THEN <<Command("setPage", selectedPage, FALSE)>>
                               ELSE <<>>,
                    !.delivered = <<>>]
    /\ last' = Call("second.setPage", selectedPage, FALSE)
    /\ SecondFrame

\* The one descendant of the second instance calls store.subscribe(callback).
SecondSubscribe ==
    /\ second.store.listeners = <<>>
    /\ second' = [second EXCEPT
                    !.store.listeners = Subscribed(second.store.listeners, 1),
                    !.issued = <<>>, !.delivered = <<>>]
    /\ last' = Call("second.subscribe", 1, FALSE)
    /\ SecondFrame

\* Both instances have two children; each receives events and commands.
InitTwo == Init /\ props.children = 2

NextTwo ==
    \/ Mount
    \/ \E position \in 0..(ChildrenCount - 1), cb \in CallbackKinds :
          OnPageSelected(position, cb)
    \/ \E s \in ScrollStates : OnPageScrollStateChanged(s, "absent")
    \/ \E i \in 0..(ChildrenCount - 1) : setPage(i)
    \/ \E id \in Subs : Subscribe(id)
    \/ SecondMount
    \/ \E position \in 0..(second.children - 1) : SecondOnPageSelected(position)
    \/ \E s \in ScrollStates : SecondOnPageScrollStateChanged(s)
    \/ \E i \in 0..(second.children - 1) : SecondSetPage(i)
    \/ SecondSubscribe

SpecTwo == InitTwo /\ [][NextTwo]_vars

\* ------------------------------------------------------------------------
\* Properties
\* ------------------------------------------------------------------------

Commands == {"setPage", "setPageWithoutAnimation", "setScrollEnabled"}

ScrollEvents == {"onPageScroll", "onPageScrollStateChanged"}

\* C1: after an onPageSelected event with position p has been handled and
\* the handler has returned, the store state is exactly
\* {page: p, hasNextPage: p < n - 1, hasPreviousPage: p > 0} for the
\* container's child count n, whatever the state was before.
C1_SelectedState ==
    (last.op = "onPageSelected" /\ ~raised) =>
        store.state = [page |-> last.position,
                       hasNextPage |-> last.position < props.children - 1,
                       hasPreviousPage |-> last.position > 0]

\* A selection of the middle page of three has been handled.
C1_Witness ==
    /\ last.op = "onPageSelected"
    /\ ~raised
    /\ props.children = 3
    /\ last.position = 1
    /\ store.state = [page |-> 1, hasNextPage |-> TRUE, hasPreviousPage |-> TRUE]

\* C2: in every reachable state, from construction onwards, the flags agree
\* with the page and with the child count known at the last update:
\* hasPreviousPage = (page > 0) and hasNextPage = (page < childCount - 1).
C2_FlagsConsistent ==
    /\ store.state.hasPreviousPage = (store.state.page > 0)
    /\ store.state.hasNextPage = (store.state.page < countAtUpdate - 1)

\* C3: with the native view handle null, setPage, setPageWithoutAnimation
\* and setScrollEnabled raise no error and issue no command.
C3_NullHandleNoCommand ==
    (last.op \in Commands /\ pagerView = NullHandle) =>
        (issued = <<>> /\ ~raised)

\* setPage(3) has been called before the view was mounted.
C3_Witness ==
    /\ last.op = "setPage"
    /\ last.position = 3
    /\ phase = "Constructed"
    /\ pagerView = NullHandle

\* C4: an onPageScroll or onPageScrollStateChanged event, whatever it
\* carries and whether or not a user callback is supplied, leaves the
\* store state as it was and notifies no subscriber.
C4_ScrollKeepsStore ==
    [][last'.op \in ScrollEvents =>
         (store'.state = store.state /\ delivered' = <<>>)]_vars

\* A scroll event for another page than the settled one has been handled
\* while a callback was subscribed.
C4_Witness ==
    /\ last.op = "onPageScroll"
    /\ selected
    /\ last.position # store.state.page
    /\ store.listeners # <<>>

Fields == {"page", "hasNextPage", "hasPreviousPage"}

\* The index of the last update of `updates` that mentions field k, or 0.
LatestMention(updates, k) ==
    LET S == {i \in 1..Len(updates) : updates[i][k] # Undefined}
    IN IF S = {} THEN 0 ELSE CHOOSE i \in S : \A j \in S : j <= i

\* Field k of `initial` overridden by `updates`, the latest mention winning.
FieldAfter(initial, updates, k) ==
    LET i == LatestMention(updates, k)
    IN IF i = 0 THEN initial[k] ELSE Val(updates[i][k])

\* `initial` overridden field by field by `updates`.
Overridden(initial, updates) ==
    [page |-> FieldAfter(initial, updates, "page"),
     hasNextPage |-> FieldAfter(initial, updates, "hasNextPage"),
     hasPreviousPage |-> FieldAfter(initial, updates, "hasPreviousPage")]

\* C5: after any sequence of setState calls, getState() is the initial
\* state overridden field by field by the partial updates in order: a field
\* has the value of the latest update that mentions it, and a field that no
\* update mentions keeps its initial value.
C5_MergeOfUpdates ==
    calls.initial # Undefined =>
        store.state = Overridden(Val(calls.initial), calls.updates)

\* Two updates set the page to different values, one of them sets
\* hasPreviousPage and none mentions hasNextPage.
C5_Witness ==
    /\ Len(calls.updates) = 2
    /\ calls.updates[1] = Partial(Some(1), Undefined, Some(TRUE))
    /\ calls.updates[2] = Partial(Some(0), Undefined, Undefined)
    /\ store.state.page = 0
    /\ store.state.hasPreviousPage

\* The callbacks notified by the last call, in the order they were notified.
NotifiedIds(d) == [i \in 1..Len(d) |-> d[i].id]

\* C6: each setState call notifies every callback subscribed at the call
\* exactly once, before it returns, with the new snapshot and in
\* subscription order, also when the update changes no field.
C6_OneRoundPerCall ==
    [][last'.op = "setState" =>
         /\ NotifiedIds(delivered') = store.listeners
         /\ \A i \in 1..Len(delivered') : delivered'[i].snapshot = store'.state
         /\ ~raised']_vars

\* An update that changed no field has notified two callbacks, the one
\* subscribed first being the one with the larger id.
C6_Witness ==
    /\ last.op = "setState"
    /\ last.flag
    /\ NotifiedIds(delivered) = <<2, 1>>

\* C7: when a callback calls an unsubscribe handle, its own or another's,
\* from inside its notification, the round does not fail and every callback
\* that was subscribed and still is gets its notification in that round.
C7_UnsubscribeInRound ==
    [][(/\ last'.op = "setState"
        /\ \E i \in 1..Len(delivered') : delivered'[i].act = "unsubscribe") =>
         /\ ~raised'
         /\ \A id \in Range(store.listeners) \cap Range(store'.listeners) :
               Cardinality({i \in 1..Len(delivered') : delivered'[i].id = id}) = 1]_vars

\* The first callback unsubscribed itself inside the round and the second,
\* still subscribed, was notified.
C7_Witness ==
    /\ last.op = "setState"
    /\ Len(delivered) = 2
    /\ delivered[1].act = "unsubscribe"
    /\ delivered[1].id \notin Range(store.listeners)
    /\ delivered[2].id \in Range(store.listeners)

\* C8: when a callback throws during a round, every callback after it in
\* subscription order is still notified in that round, and the store state
\* is the merged new state.
C8_ThrowIsolated ==
    [][last'.op = "setState" =>
         \A j \in 1..Len(store.listeners) :
            (\E k \in 1..Len(delivered') :
                /\ delivered'[k].id = store.listeners[j]
                /\ delivered'[k].act = "throw") =>
            /\ \A i \in (j + 1)..Len(store.listeners) :
                  \E m \in 1..Len(delivered') :
                     /\ delivered'[m].id = store.listeners[i]
                     /\ delivered'[m].snapshot = store'.state
            /\ store'.state = Overridden(store.state, <<last'.update>>)]_vars

\* The first callback threw on an update of the page and the second was
\* notified with the new page.
C8_Witness ==
    /\ last.op = "setState"
    /\ ~last.flag
    /\ Len(delivered) = 2
    /\ delivered[1].act = "throw"
    /\ delivered[2].snapshot = store.state
    /\ store.state.page = 1

\* C9 as claimed: provided the native view reports only positions of
\* existing pages, in every reachable state 0 <= page <= childCount - 1 for
\* the container's current child count, also after the application changes
\* the number of children and before the first selection event.
C9_PageInRange ==
    /\ store.state.page >= 0
    /\ store.state.page <= props.children - 1

\* C9 as amended: provided the native view reports only positions of
\* existing pages, once a selection event has updated the store
\* 0 <= page <= n - 1 for the child count n at the last such event.
C9_PageInRangeAtUpdate ==
    selected =>
        /\ store.state.page >= 0
        /\ store.state.page <= countAtUpdate - 1

\* The application removed pages after the last page was selected: the
\* page is in range for the child count of that event, not for the current.
C9_Witness ==
    /\ selected
    /\ props.children < countAtUpdate
    /\ store.state.page = countAtUpdate - 1
    /\ store.state.page > props.children - 1

\* C10 as claimed: when the container unmounts the store is torn down, its
\* subscriber set cleared.
C10_UnmountClearsSubscribers ==
    last.op = "unmount" => store.listeners = <<>>

\* C10 as amended: unmounting releases the native view handle and leaves
\* the store's subscriber set exactly as it was.
C10_UnmountKeepsSubscribers ==
    [][last'.op = "unmount" =>
         (pagerView' = NullHandle /\ store' = store)]_vars

\* The container has unmounted with a callback still subscribed.
C10_Witness ==
    /\ last.op = "unmount"
    /\ phase = "Unmounted"
    /\ pagerView = NullHandle
    /\ store.listeners # <<>>

SecondCalls ==
    {"second.mount", "second.onPageSelected", "second.onPageScrollStateChanged",
     "second.setPage", "second.subscribe"}

\* C11: with two container instances mounted at the same time, an event or
\* a command on one leaves the other's store state, subscribers, what its
\* subscribers were notified of, its dragging flag, its handle and the
\* commands issued against its native view unchanged; the commands of one
\* instance reach that instance's own view only.
C11_InstancesIsolated ==
    [][/\ last'.op \notin SecondCalls => second' = second
       /\ last'.op \in SecondCalls =>
            UNCHANGED <<isScrolling, pagerView, store, issued, delivered>>
       /\ last'.op = "setPage" =>
            issued' = IF pagerView # NullHandle
                      THEN <<Command("setPage", last'.position, FALSE)>>
                      ELSE <<>>
       /\ last'.op = "second.setPage" =>
            second'.issued = IF second.pagerView # NullHandle
                             THEN <<Command("setPage", last'.position, FALSE)>>
                             ELSE <<>>]_vars

\* Both instances are mounted and have subscribers; the first has just
\* handled a selection that notified its subscriber, and the second still
\* holds the different page selected on it earlier.
C11_Witness ==
    /\ last.op = "onPageSelected"
    /\ pagerView # NullHandle
    /\ second.pagerView # NullHandle
    /\ delivered # <<>>
    /\ second.store.listeners # <<>>
    /\ second.delivered # <<>>
    /\ store.state.page = 0
    /\ second.store.state.page = 1

\* C12: the store is mutated only by the onPageSelected handler.  A call
\* to setPage, setPageWithoutAnimation or setScrollEnabled, with the handle
\* null or not, leaves the store as it was and notifies no subscriber; the
\* store's state changes only in a step that handles an onPageSelected
\* event, and the page it then holds is that event's position.
C12_OnlySelectionMutatesStore ==
    [][/\ last'.op \in Commands => (store' = store /\ delivered' = <<>>)
       /\ store'.state # store.state =>
            (last'.op = "onPageSelected" /\ store'.state.page = last'.position)]_vars

\* setPage(i) has reached the native view with an i that is not the
\* store's page, a subscriber is waiting, and the store still holds the
\* page of the last selection.
C12_Witness ==
    /\ last.op = "setPage"
    /\ issued = <<Command("setPage", last.position, FALSE)>>
    /\ selected
    /\ store.listeners # <<>>
    /\ store.state.page # last.position
    /\ delivered = <<>>

\* C13: while the native handle is non-null, setPage(i) issues exactly one
\* animated setPage command carrying i and setPageWithoutAnimation(i)
\* exactly one non-animated command carrying i, for every i, negative or
\* beyond the last child included, and whatever was called before, a
\* setScrollEnabled(false) included.
C13_CommandCarriesIndex ==
    [][pagerView # NullHandle =>
         /\ last'.op = "setPage" =>
              issued' = <<Command("setPage", last'.position, FALSE)>>
         /\ last'.op = "setPageWithoutAnimation" =>
              issued' = <<Command("setPageWithoutAnimation", last'.position, FALSE)>>
         /\ (last.op = "setScrollEnabled" /\ ~last.flag /\ last'.op = "setPage") =>
              Len(issued') = 1]_vars

\* setPage was called on a mounted container with an index beyond the
\* last child, and the command carries that index.
C13_Witness ==
    /\ last.op = "setPage"
    /\ pagerView # NullHandle
    /\ last.position > props.children - 1
    /\ issued = <<Command("setPage", last.position, FALSE)>>

\* The step of a selection event: which statement ran, on which position.
Step(name, position) == [step |-> name, position |-> position]

\* The state a selection event at `position` writes while the container
\* has `count` children.
SelectedState(position, count) ==
    [page |-> position,
     hasNextPage |-> position < count - 1,
     hasPreviousPage |-> position > 0]

\* What C14 says of a selection event whose handler ran to its end: the
\* user's callback, when supplied, once and first, with the event's
\* position; then one setState; every subscriber notified once, with the
\* whole new state.
SelectionInOrder ==
    /\ steps' = IF last'.flag
                THEN <<Step("onPageSelected", last'.position),
                       Step("setState", last'.position)>>
                ELSE <<Step("setState", last'.position)>>
    /\ NotifiedIds(delivered') = store.listeners
    /\ \A i \in 1..Len(delivered') :
          delivered'[i].snapshot = SelectedState(last'.position, ChildrenCount)
    /\ store'.state = SelectedState(last'.position, ChildrenCount)

\* C14 as claimed: for each onPageSelected event the user's selection
\* callback, if supplied, is invoked exactly once with the unmodified event
\* and strictly before the store update; the store update is one setState
\* call, every store subscriber is notified exactly once per event, and no
\* subscriber sees the new page with flags of the old one.
C14_OncePerEvent ==
    [][last'.op = "onPageSelected" => SelectionInOrder]_vars

\* C14 as amended: the above holds for each onPageSelected event whose user
\* callback is absent or returns.  When the user's callback throws it has
\* still been invoked once, first and with the event's position, but the
\* handler ends there: there is no setState call and no subscriber is
\* notified for that event.
C14_CallbackThenOneUpdate ==
    [][last'.op = "onPageSelected" =>
         IF raised'
         THEN /\ steps' = <<Step("onPageSelected", last'.position)>>
              /\ delivered' = <<>>
              /\ store' = store
         ELSE SelectionInOrder]_vars

\* An event with a user callback that returned has moved the store to
\* another page, and two subscribers were notified of it.
C14_Witness ==
    /\ last.op = "onPageSelected"
    /\ last.flag
    /\ ~raised
    /\ Len(steps) = 2
    /\ Len(delivered) = 2
    /\ store.state.page = last.position
    /\ store.state.hasPreviousPage
    /\ ~store.state.hasNextPage

\* C15 as claimed: the store's page is the position of the most recent
\* onPageSelected event, or the seeded initial page before the first one:
\* every onPageSelected event sets the page to its position, and no other
\* call changes the page.
C15_PageOfLatestEvent ==
    /\ last.op = "constructor" => store.state.page = last.position
    /\ [][IF last'.op = "onPageSelected"
          THEN store'.state.page = last'.position
          ELSE store'.state.page = store.state.page]_vars

\* C15 as amended: the store's page is the position of the most recent
\* onPageSelected event whose user callback was absent or returned, or the
\* seeded initial page before the first such event.  An event whose user
\* callback throws, a scroll event, a scroll-state event, a command and any
\* other call leave the page of the earlier selection in the store.
C15_PageOfLatestHandledEvent ==
    /\ last.op = "constructor" => store.state.page = last.position
    /\ [][IF last'.op = "onPageSelected" /\ ~raised'
          THEN store'.state.page = last'.position
          ELSE store'.state.page = store.state.page]_vars

\* After a selection, a scroll event reports another position and the
\* store keeps the page of the selection.
C15_Witness ==
    /\ last.op = "onPageScroll"
    /\ selected
    /\ last.position >= 0
    /\ last.position < props.children
    /\ store.state.page # last.position

\* C16 as claimed: the responder-capture predicate is false before any
\* onPageScrollStateChanged event, every such event makes it true when its
\* pageScrollState is "dragging" and false when it is "idle" or "settling",
\* and no other call changes it.
C16_CaptureIffLastDragging ==
    /\ last.op = "constructor" => ~OnMoveShouldSetResponderCapture
    /\ [][IF last'.op = "onPageScrollStateChanged"
          THEN OnMoveShouldSetResponderCapture' = last'.flag
          ELSE OnMoveShouldSetResponderCapture' = OnMoveShouldSetResponderCapture]_vars

\* C16 as amended: the predicate is false before any onPageScrollStateChanged
\* event; an event whose user callback is absent or returns makes it true
\* when its pageScrollState is "dragging" and false otherwise; an event
\* whose user callback throws leaves it as it was, as does every other call.
C16_CaptureIffLastHandledDragging ==
    /\ last.op = "constructor" => ~OnMoveShouldSetResponderCapture
    /\ [][IF last'.op = "onPageScrollStateChanged" /\ ~raised'
          THEN OnMoveShouldSetResponderCapture' = last'.flag
          ELSE OnMoveShouldSetResponderCapture' = OnMoveShouldSetResponderCapture]_vars

\* A drag has begun and a scroll event has been handled since: the
\* predicate still answers true.
C16_Witness ==
    /\ last.op = "onPageScroll"
    /\ ~raised
    /\ OnMoveShouldSetResponderCapture

\* How many times callback id was invoked in the round d.
Invocations(d, id) == Cardinality({i \in 1..Len(d) : d[i].id = id})

\* C17: a callback subscribed from inside a notification callback, while
\* a round is in progress, is not invoked in that round; a callback that
\* is subscribed when a round starts, in an earlier round or outside one,
\* is invoked exactly once in it.
C17_SubscribeInRound ==
    [][last'.op = "setState" =>
         /\ \A id \in Range(store'.listeners) \ Range(store.listeners) :
               Invocations(delivered', id) = 0
         /\ \A id \in Range(store.listeners) :
               Invocations(delivered', id) = 1]_vars

\* The only callback subscribed another one inside the round: it alone
\* was notified, and both are subscribed now.
C17_Witness ==
    /\ last.op = "setState"
    /\ Len(delivered) = 1
    /\ delivered[1].act = "subscribe"
    /\ Len(store.listeners) = 2
    /\ store.listeners[1] = delivered[1].id
    /\ Invocations(delivered, store.listeners[2]) = 0

\* C18: a newly constructed container's store holds page = initialPage,
\* 0 when initialPage is not supplied, hasPreviousPage = (initialPage > 0)
\* and hasNextPage = true whatever the number of children, and no call
\* changes this state before the first onPageSelected event updates it.
C18_SeededFromInitialPage ==
    /\ last.op = "constructor" =>
         /\ ~last.flag => last.position = 0
         /\ store.state = [page |-> last.position,
                           hasNextPage |-> TRUE,
                           hasPreviousPage |-> last.position > 0]
    /\ [][~selected' => store'.state = store.state]_vars

\* A container constructed with initialPage = 2 has one child or none, was
\* mounted and has handled a scroll event but no selection: the store
\* still says page 2 with a next and a previous page.
C18_Witness ==
    /\ ~selected
    /\ last.op = "onPageScroll"
    /\ props.children <= 1
    /\ store.state = [page |-> 2, hasNextPage |-> TRUE, hasPreviousPage |-> TRUE]

\* C19: when the user-supplied onPageSelected callback throws, the store
\* is left unchanged for that event: setState is not called and no store
\* subscriber is notified.  getState() keeps returning the page and flags
\* of the previous selection until a later onPageSelected event whose user
\* callback returns: no step but such an event changes the store's state.
C19_ThrowLeavesStore ==
    [][/\ (last'.op = "onPageSelected" /\ raised') =>
            /\ store' = store
            /\ delivered' = <<>>
            /\ \A i \in 1..Len(steps') : steps'[i].step # "setState"
       /\ store'.state # store.state =>
            (last'.op = "onPageSelected" /\ ~raised')]_vars

\* After a selection of another page, an event whose user callback threw
\* reached a container with a subscriber: the store keeps the page of the
\* earlier selection and nobody was notified.
C19_Witness ==
    /\ last.op = "onPageSelected"
    /\ raised
    /\ selected
    /\ steps = <<Step("onPageSelected", last.position)>>
    /\ store.listeners # <<>>
    /\ delivered = <<>>
    /\ store.state.page # last.position
    /\ last.position >= 0
    /\ last.position < props.children

\* C20: rendering the container with another number of children leaves
\* the store unchanged and notifies no subscriber; once a selection event
\* has updated the store, hasNextPage is the value computed from the child
\* count current when that event was handled, however many children there
\* are now.
C20_ChildrenChangeLeavesStore ==
    /\ [](selected =>
            store.state.hasNextPage = (store.state.page < countAtUpdate - 1))
    /\ [][/\ last'.op = "render" => (store' = store /\ delivered' = <<>>)
          /\ last'.op = "onPageSelected" /\ ~raised' =>
               store'.state.hasNextPage = (last'.position < props.children - 1)]_vars

\* Pages were appended to a container settled on its former last page, a
\* subscriber is listening, and hasNextPage is still false.
C20_Witness ==
    /\ last.op = "render"
    /\ selected
    /\ store.listeners # <<>>
    /\ store.state.page = countAtUpdate - 1
    /\ props.children > countAtUpdate
    /\ ~store.state.hasNextPage
    /\ delivered = <<>>

====
